---- MODULE Spec2Model ----
(***************************************************************************)
(* Model of the rnd application (src/src/rnd): the Contract, RnD and       *)
(* TechnicalSpecification tables, the validation run by each model's       *)
(* save(), and the pre_save/post_save handlers of Contract.                *)
(*                                                                         *)
(* A table is a function from the stored primary keys to rows.  An         *)
(* operation is an operator from the tables and the saved instance to the  *)
(* new tables and the outcome of the call; an action applies it to an      *)
(* instance drawn from a small set.                                        *)
(***************************************************************************)
EXTENDS Integers, FiniteSets, Sequences, TLC

VARIABLES types, contracts, rnds, specs, last, upload, ts_calls, status_calls

vars == <<types, contracts, rnds, specs, last, upload, ts_calls, status_calls>>

\* the upload path built last and the calls in progress: no save() run as one step
\* touches them
calls_running == <<upload, ts_calls, status_calls>>

(***************************************************************************)
(* Bounds of the model.                                                    *)
(***************************************************************************)
MaxContract == 2
MaxRnD == 1
MaxSpec == 2

None == 0
\* obj.main_contract = obj: the cached related object is the instance itself
SelfRef == -1

ContractIds == 1..MaxContract
RnDIds == 1..MaxRnD
SpecIds == 1..MaxSpec

(***************************************************************************)
(* Choices and the status mapping.                                         *)
(***************************************************************************)
CONTRACT_STATUS_CHOICES == {"active", "suspended", "completed", "terminated"}

STATUS_CHOICES == {"in_progress", "suspended", "completed", "contract_terminated"}

\* the dict status_mapping and its .get(status, 'in_progress')
status_mapping(s) ==
    CASE s = "active" -> "in_progress"
      [] s = "suspended" -> "suspended"
      [] s = "completed" -> "completed"
      [] s = "terminated" -> "contract_terminated"
      [] OTHER -> "in_progress"

(***************************************************************************)
(* ContractType rows.  Type 1 is a main contract type, type 2 the          *)
(* supplementary agreement to it, type 3 a second main contract type.      *)
(***************************************************************************)
ContractTypeRows ==
    (1 :> [is_supplementary |-> FALSE, parent_type |-> None]) @@
    (2 :> [is_supplementary |-> TRUE, parent_type |-> 1]) @@
    (3 :> [is_supplementary |-> FALSE, parent_type |-> None])

\* Contract.is_supplementary / Contract.is_main_contract of a row or instance
is_supplementary(c) == types[c.type].is_supplementary

is_main_contract(c) == ~is_supplementary(c)

\* the id an AutoField gives the next inserted row
NextId(table) ==
    IF DOMAIN table = {} THEN 1
    ELSE (CHOOSE m \in DOMAIN table : \A k \in DOMAIN table : k <= m) + 1

\* INSERT or UPDATE of one row
WriteRow(table, id, row) ==
    [k \in DOMAIN table \cup {id} |-> IF k = id THEN row ELSE table[k]]

(***************************************************************************)
(* Text fields are sequences of characters; str.strip() drops the leading  *)
(* and trailing blanks.                                                    *)
(***************************************************************************)
RECURSIVE lstrip(_)
lstrip(s) == IF s # <<>> /\ Head(s) = " " THEN lstrip(Tail(s)) ELSE s

RECURSIVE rstrip(_)
rstrip(s) ==
    IF s # <<>> /\ s[Len(s)] = " " THEN rstrip(SubSeq(s, 1, Len(s) - 1)) ELSE s

strip(s) == rstrip(lstrip(s))

\* "not value or not value.strip()"
is_blank(s) == s = <<>> \/ strip(s) = <<>>

Rejected(inst) == [error |-> TRUE, instance |-> inst]

Accepted(inst) == [error |-> FALSE, instance |-> inst]

(***************************************************************************)
(* Contract.  An instance is [pk, type, main_contract, status, number]; a  *)
(* stored row is [type, main_contract, status].                            *)
(***************************************************************************)

\* Contract.clean() without the checks of a supplementary agreement
Contract_clean_unchecked(inst) ==
    IF is_blank(inst.number) THEN Rejected(inst)
    ELSE IF is_supplementary(inst) THEN Accepted(inst)
    ELSE IF /\ inst.main_contract # None
            /\ inst.main_contract # SelfRef
            /\ inst.main_contract # inst.pk
         THEN Rejected(inst)
    ELSE Accepted([inst EXCEPT !.main_contract = SelfRef])

\* Contract.clean() that overwrites main_contract of a main contract unchecked
Contract_clean_overwriting(inst) ==
    IF is_blank(inst.number) THEN Rejected(inst)
    ELSE IF is_supplementary(inst) THEN
        IF inst.main_contract = None THEN Rejected(inst)
        ELSE IF is_supplementary(contracts[inst.main_contract]) THEN Rejected(inst)
        ELSE IF contracts[inst.main_contract].type # types[inst.type].parent_type
             THEN Rejected(inst)
        ELSE Accepted(inst)
    ELSE Accepted([inst EXCEPT !.main_contract = SelfRef])

Contract_clean(inst) ==
    IF is_blank(inst.number) THEN Rejected(inst)
    ELSE IF is_supplementary(inst) THEN
        IF inst.main_contract = None THEN Rejected(inst)
        ELSE IF is_supplementary(contracts[inst.main_contract]) THEN Rejected(inst)
        ELSE IF contracts[inst.main_contract].type # types[inst.type].parent_type
             THEN Rejected(inst)
        ELSE Accepted(inst)
    ELSE IF /\ inst.main_contract # None
            /\ inst.main_contract # SelfRef
            /\ inst.main_contract # inst.pk
         THEN Rejected(inst)
    ELSE Accepted([inst EXCEPT !.main_contract = SelfRef])

\* the stored status read after the write: it never differs
track_status_after_write(inst) == FALSE

\* pre_save of Contract: instance._status_changed
track_contract_status_change(inst) ==
    IF inst.pk # None
    THEN IF inst.pk \in DOMAIN contracts
         THEN contracts[inst.pk].status # inst.status
         ELSE FALSE
    ELSE FALSE

\* the cascade run whatever _status_changed says
update_rnd_status_always(inst, status_changed, rnd_table) ==
    IF is_main_contract(inst)
    THEN LET new_status == status_mapping(inst.status)
         IN [r \in DOMAIN rnd_table |->
                IF rnd_table[r].contract = inst.pk /\ rnd_table[r].status # new_status
                THEN [rnd_table[r] EXCEPT !.status = new_status,
                                          !.last_contract_status = inst.status]
                ELSE rnd_table[r]]
    ELSE rnd_table

\* the handler of models.py left unconnected: the rows stay as they are
update_rnd_status_not_connected(inst, status_changed, rnd_table) == rnd_table

\* post_save of Contract (models.py): the cascade to the RnD rows
update_rnd_status_on_contract_status_change(inst, status_changed, rnd_table) ==
    IF is_main_contract(inst) /\ status_changed
    THEN LET new_status == status_mapping(inst.status)
         IN [r \in DOMAIN rnd_table |->
                IF rnd_table[r].contract = inst.pk /\ rnd_table[r].status # new_status
                THEN [rnd_table[r] EXCEPT !.status = new_status,
                                          !.last_contract_status = inst.status]
                ELSE rnd_table[r]]
    ELSE rnd_table

\* post_save of Contract (signals.py): the same cascade, registered a second time
signals_update_rnd_status_on_contract_status_change(inst, status_changed, rnd_table) ==
    IF is_main_contract(inst) /\ status_changed
    THEN LET new_status == status_mapping(inst.status)
         IN [r \in DOMAIN rnd_table |->
                IF rnd_table[r].contract = inst.pk /\ rnd_table[r].status # new_status
                THEN [rnd_table[r] EXCEPT !.status = new_status,
                                          !.last_contract_status = inst.status]
                ELSE rnd_table[r]]
    ELSE rnd_table

\* post_save of Contract (signals.py): instance.save(update_fields=['main_contract'])
\* writes the one column; the nested save finds no status change
ensure_main_contract_integrity(inst, contract_table) ==
    IF /\ ~is_supplementary(inst)
       /\ inst.main_contract # SelfRef
       /\ inst.main_contract # inst.pk
    THEN [contract_table EXCEPT ![inst.pk].main_contract = inst.pk]
    ELSE contract_table

\* the row written with the main_contract column left NULL
ContractRow_no_main(inst, id) ==
    [type |-> inst.type, main_contract |-> None, status |-> inst.status]

\* the row Model.save() writes for an instance that has the primary key id
ContractRow(inst, id) ==
    [type |-> inst.type,
     main_contract |-> IF inst.main_contract = SelfRef THEN id ELSE inst.main_contract,
     status |-> inst.status]

\* Model.save(): the unsaved-related-object check, pre_save, the write, post_save
Contract_super_save(inst) ==
    IF inst.main_contract = SelfRef /\ inst.pk = None
    THEN [outcome |-> "ValueError", pk |-> None, contracts |-> contracts, rnds |-> rnds]
    ELSE LET status_changed == track_contract_status_change(inst)
             id == IF inst.pk = None THEN NextId(contracts) ELSE inst.pk
             saved == [inst EXCEPT !.pk = id]
             written == WriteRow(contracts, id, ContractRow(inst, id))
             cascaded == update_rnd_status_on_contract_status_change(
                             saved, status_changed, rnds)
             again == signals_update_rnd_status_on_contract_status_change(
                             saved, status_changed, cascaded)
         IN [outcome |-> "saved", pk |-> id,
             contracts |-> ensure_main_contract_integrity(saved, written),
             rnds |-> again]

\* Contract.save(): full_clean(), then Model.save()
Contract_save(inst) ==
    LET cleaned == Contract_clean(inst)
    IN IF cleaned.error
       THEN [outcome |-> "ValidationError", pk |-> None,
             contracts |-> contracts, rnds |-> rnds]
       ELSE Contract_super_save(cleaned.instance)

\* ContractAdmin.save_model(): an added object is saved with main_contract = None
\* first; the two later saves are reached only if that save returns
ContractAdmin_save_model(inst, change) ==
    IF ~change
    THEN LET first == Contract_save([inst EXCEPT !.main_contract = None])
         IN IF first.outcome # "saved" THEN first
            ELSE [first EXCEPT
                    !.contracts = [first.contracts EXCEPT ![first.pk].main_contract =
                        IF is_supplementary(inst) THEN inst.main_contract ELSE first.pk]]
    ELSE Contract_save(inst)

(***************************************************************************)
(* RnD.  An instance is [pk, contract, status, last_contract_status,       *)
(* uuid]; a stored row is [contract, status, last_contract_status].        *)
(***************************************************************************)
Null == "null"

\* self.contract: the related object the instance has cached since it was loaded,
\* else the row fetched now
RnD_contract(inst) ==
    IF "cached_contract" \in DOMAIN inst THEN inst.cached_contract
    ELSE contracts[inst.contract]

\* the synchronisation that never compares last_contract_status
sync_status_forced(inst, force) ==
    IF inst.contract = None THEN inst
    ELSE [inst EXCEPT !.status = status_mapping(RnD_contract(inst).status),
                      !.last_contract_status = RnD_contract(inst).status]

\* RnD.sync_status_with_contract(force): the instance after the call
sync_status_with_contract(inst, force) ==
    IF inst.contract = None THEN inst
    ELSE LET contract_status == RnD_contract(inst).status
             new_status == status_mapping(contract_status)
         IN IF ~force /\ inst.last_contract_status = contract_status THEN inst
            ELSE IF inst.status # new_status \/ force
                 THEN [inst EXCEPT !.status = new_status,
                                   !.last_contract_status = contract_status]
            ELSE inst

RnD_clean(inst) ==
    IF inst.contract # None /\ is_supplementary(RnD_contract(inst))
    THEN Rejected(inst)
    ELSE IF is_blank(inst.uuid) THEN Rejected(inst)
    ELSE Accepted(sync_status_with_contract(inst, FALSE))

RnDRow(inst) ==
    [contract |-> inst.contract, status |-> inst.status,
     last_contract_status |-> inst.last_contract_status]

\* RnD.save(): full_clean(), the second synchronisation, then Model.save()
RnD_save(inst) ==
    LET cleaned == RnD_clean(inst)
    IN IF cleaned.error
       THEN [outcome |-> "ValidationError", pk |-> None, rnds |-> rnds]
       ELSE LET synced == IF inst.pk # None
                          THEN sync_status_with_contract(cleaned.instance, FALSE)
                          ELSE sync_status_with_contract(cleaned.instance, TRUE)
                id == IF inst.pk = None THEN NextId(rnds) ELSE inst.pk
            IN [outcome |-> "saved", pk |-> id,
                rnds |-> WriteRow(rnds, id, RnDRow(synced))]

\* Contract.objects.get(pk=contract_id, is_main_contract=True): is_main_contract is
\* a property of the class, not a field, so the lookup cannot be resolved
Contract_objects_get_main(contract_id) == "FieldError"

\* update_all_rnd_statuses_for_contract(contract_id); only DoesNotExist is caught
update_all_rnd_statuses_for_contract(contract_id) ==
    LET found == Contract_objects_get_main(contract_id)
    IN IF found = "FieldError"
       THEN [outcome |-> "FieldError", count |-> 0, rnds |-> rnds]
       ELSE IF found = "DoesNotExist"
       THEN [outcome |-> "returned", count |-> 0, rnds |-> rnds]
       ELSE LET contract == contracts[contract_id]
                new_status == status_mapping(contract.status)
                linked == {r \in DOMAIN rnds : rnds[r].contract = contract_id}
            IN [outcome |-> "returned", count |-> Cardinality(linked),
                rnds |-> [r \in DOMAIN rnds |->
                    IF r \in linked
                    THEN [rnds[r] EXCEPT !.status = new_status,
                                         !.last_contract_status = contract.status]
                    ELSE rnds[r]]]

(***************************************************************************)
(* TechnicalSpecification.  An instance is [pk, rnd, contract_document,    *)
(* is_active, version]; a stored row is [rnd, contract_document,           *)
(* is_active].                                                             *)
(***************************************************************************)
VersionMaxLength == 20

\* Model.clean_fields(): version = CharField(max_length=20)
TechnicalSpecification_clean_fields(inst) == Len(inst.version) <= VersionMaxLength

\* no older version is deactivated
deactivate_none(inst, spec_table) == spec_table

\* only the versions approved by the same document are deactivated
deactivate_others_of_document(inst, spec_table) ==
    [k \in DOMAIN spec_table |->
        IF /\ spec_table[k].rnd = inst.rnd
           /\ spec_table[k].contract_document = inst.contract_document
           /\ spec_table[k].is_active
           /\ k # inst.pk
        THEN [spec_table[k] EXCEPT !.is_active = FALSE]
        ELSE spec_table[k]]

\* the active versions of every RnD are deactivated
deactivate_others_of_all_rnds(inst, spec_table) ==
    [k \in DOMAIN spec_table |->
        IF spec_table[k].is_active /\ k # inst.pk
        THEN [spec_table[k] EXCEPT !.is_active = FALSE]
        ELSE spec_table[k]]

\* filter(rnd=..., is_active=True).exclude(id=...).update(is_active=False)
deactivate_others(inst, spec_table) ==
    [k \in DOMAIN spec_table |->
        IF /\ spec_table[k].rnd = inst.rnd
           /\ spec_table[k].is_active
           /\ k # inst.pk
        THEN [spec_table[k] EXCEPT !.is_active = FALSE]
        ELSE spec_table[k]]

\* clean() that checks a main contract only and takes any supplementary agreement
TechnicalSpecification_clean_main_only(inst) ==
    LET document == contracts[inst.contract_document]
        rnd == rnds[inst.rnd]
        mismatch == is_main_contract(document) /\ inst.contract_document # rnd.contract
    IN IF mismatch THEN [error |-> TRUE, specs |-> specs]
       ELSE IF inst.is_active
            THEN [error |-> FALSE, specs |-> deactivate_others(inst, specs)]
       ELSE [error |-> FALSE, specs |-> specs]

\* TechnicalSpecification.clean(): the outcome and the table it leaves
TechnicalSpecification_clean(inst) ==
    LET document == contracts[inst.contract_document]
        rnd == rnds[inst.rnd]
        mismatch ==
            IF is_main_contract(document)
            THEN inst.contract_document # rnd.contract
            ELSE document.main_contract # rnd.contract
    IN IF mismatch THEN [error |-> TRUE, specs |-> specs]
       ELSE IF inst.is_active
            THEN [error |-> FALSE, specs |-> deactivate_others(inst, specs)]
       ELSE [error |-> FALSE, specs |-> specs]

SpecRow(inst) ==
    [rnd |-> inst.rnd, contract_document |-> inst.contract_document,
     is_active |-> inst.is_active]

\* TechnicalSpecification.save(): full_clean() runs clean() also when clean_fields()
\* failed, and raises after both; then Model.save()
TechnicalSpecification_save(inst) ==
    LET fields_ok == TechnicalSpecification_clean_fields(inst)
        cleaned == TechnicalSpecification_clean(inst)
    IN IF ~fields_ok \/ cleaned.error
       THEN [outcome |-> "ValidationError", pk |-> None, specs |-> cleaned.specs]
       ELSE LET id == IF inst.pk = None THEN NextId(specs) ELSE inst.pk
            IN [outcome |-> "saved", pk |-> id,
                specs |-> WriteRow(cleaned.specs, id, SpecRow(inst))]

(***************************************************************************)
(* TechnicalSpecification.get_upload_path(), the upload_to of the document *)
(* field.  A text is a sequence of characters.  The instance is [pk, rnd,  *)
(* version, is_active]; now is the value of timezone.now(), [year, month,  *)
(* day, hour].                                                             *)
(***************************************************************************)
Digits == <<"0", "1", "2", "3", "4", "5", "6", "7", "8", "9">>

RECURSIVE decimal(_)
decimal(n) ==
    IF n < 10 THEN <<Digits[n + 1]>>
    ELSE Append(decimal(n \div 10), Digits[(n % 10) + 1])

RECURSIVE zfill(_, _)
zfill(s, width) == IF Len(s) >= width THEN s ELSE zfill(<<"0">> \o s, width)

\* strftime('%Y_%-m_%-d'): month and day without the leading zero
strftime_not_padded(now) ==
    decimal(now.year) \o <<"_">> \o decimal(now.month) \o <<"_">> \o decimal(now.day)

\* strftime('%Y_%m_%d')
strftime(now) ==
    zfill(decimal(now.year), 4) \o <<"_">> \o zfill(decimal(now.month), 2)
        \o <<"_">> \o zfill(decimal(now.day), 2)

\* posixpath.join(a, *p): a component that starts with the separator replaces what
\* was joined before it
RECURSIVE os_path_join(_, _)
os_path_join(path, p) ==
    IF p = <<>> THEN path
    ELSE LET b == Head(p)
             joined == IF b # <<>> /\ Head(b) = "/" THEN b
                       ELSE IF path = <<>> \/ path[Len(path)] = "/" THEN path \o b
                       ELSE path \o <<"/">> \o b
         IN os_path_join(joined, Tail(p))

technical_specifications ==
    <<"t", "e", "c", "h", "n", "i", "c", "a", "l", "_",
      "s", "p", "e", "c", "i", "f", "i", "c", "a", "t", "i", "o", "n", "s">>

\* the else branch is the fallback of the source; the rnd of a stored or validated
\* specification is never None
get_upload_path(self, now, filename) ==
    IF self.rnd # None
    THEN LET current_date == strftime(now)
             folder_name == rnds[self.rnd].uuid \o <<"_", "t", "s", "_">> \o current_date
         IN os_path_join(rnds[self.rnd].uuid,
                         <<technical_specifications, <<"t", "s">>, folder_name, filename>>)
    ELSE LET current_date == strftime(now)
         IN os_path_join(<<"t", "e", "m", "p">>,
                         <<technical_specifications, current_date, filename>>)

(***************************************************************************)
(* The instances the actions save.  A stored object is loaded, edited and  *)
(* saved, so every modelled field of the instance is an input; a new       *)
(* object has pk None or a primary key chosen by the caller.  A blank      *)
(* number or uuid is tried with one value of the other fields.             *)
(***************************************************************************)
GoodNumber == <<"7">>

BlankNumber == <<" ">>

GoodVersion == <<"1", ".", "0">>

LongVersion == [i \in 1..(VersionMaxLength + 1) |-> "9"]

ContractInstances(ids, type_ids, statuses) ==
    [pk : {None} \cup ids,
     type : type_ids,
     main_contract : {None} \cup DOMAIN contracts,
     status : statuses,
     number : {GoodNumber}]
    \cup
    [pk : {None} \cup ids,
     type : type_ids,
     main_contract : {None},
     status : {"active"},
     number : {BlankNumber}]

\* last_contract_status is not editable: the stored value, NULL on a new object
RnDInstance(pk, contract, status, uuid) ==
    [pk |-> pk, contract |-> contract, status |-> status, uuid |-> uuid,
     last_contract_status |->
         IF pk \in DOMAIN rnds THEN rnds[pk].last_contract_status ELSE Null]

RnDInstances(ids, statuses) ==
    {RnDInstance(pk, c, s, GoodNumber) :
        pk \in {None} \cup ids, c \in DOMAIN contracts, s \in statuses}
    \cup
    {RnDInstance(pk, c, "in_progress", BlankNumber) :
        pk \in {None} \cup ids, c \in DOMAIN contracts}

SpecInstances(ids) ==
    [pk : {None} \cup ids,
     rnd : DOMAIN rnds,
     contract_document : DOMAIN contracts,
     is_active : BOOLEAN,
     version : {GoodVersion}]
    \cup
    [pk : {None} \cup ids,
     rnd : DOMAIN rnds,
     contract_document : DOMAIN contracts,
     is_active : {TRUE},
     version : {LongVersion}]

(***************************************************************************)
(* Actions.  last records the call just made: the operation, its outcome,  *)
(* the primary key it wrote and what it found stored under that key        *)
(* ("new": nothing, "stored": the row, "changed": the row with another     *)
(* status).                                                                *)
(***************************************************************************)
NoCall == [op |-> "none", outcome |-> "none", pk |-> None, found |-> "none"]

Call(op, outcome, pk, found) ==
    [op |-> op, outcome |-> outcome,
     pk |-> IF outcome = "saved" THEN pk ELSE None,
     found |-> IF outcome = "saved" THEN found ELSE "none"]

Found(table, inst) ==
    IF inst.pk \notin DOMAIN table THEN "new"
    ELSE IF table[inst.pk].status # inst.status THEN "changed"
    ELSE "stored"

ContractSave(inst, ids) ==
    LET r == Contract_save(inst)
    IN /\ DOMAIN r.contracts \subseteq ids
       /\ contracts' = r.contracts
       /\ rnds' = r.rnds
       /\ last' = Call("Contract.save", r.outcome, r.pk, Found(contracts, inst))
       /\ UNCHANGED <<types, specs, calls_running>>

\* ContractForm.__init__(): the types offered for a stored document are those of
\* its kind, supplementary or not
ContractForm_type_offered(inst) ==
    inst.pk \in DOMAIN contracts =>
        is_supplementary(inst) = is_supplementary(contracts[inst.pk])

\* the admin adds an object without a primary key and changes a stored one
AdminSaveModel(inst, ids) ==
    LET r == ContractAdmin_save_model(inst, inst.pk \in DOMAIN contracts)
    IN /\ inst.pk \in {None} \cup DOMAIN contracts
       /\ ContractForm_type_offered(inst)
       /\ DOMAIN r.contracts \subseteq ids
       /\ contracts' = r.contracts
       /\ rnds' = r.rnds
       /\ last' = Call("ContractAdmin.save_model", r.outcome, r.pk,
                       Found(contracts, inst))
       /\ UNCHANGED <<types, specs, calls_running>>

RnDSave(inst, ids) ==
    LET r == RnD_save(inst)
    IN /\ DOMAIN r.rnds \subseteq ids
       /\ rnds' = r.rnds
       /\ last' = Call("RnD.save", r.outcome, r.pk, Found(rnds, inst))
       /\ UNCHANGED <<types, contracts, specs, calls_running>>

UpdateAllRnDStatuses(contract_id) ==
    LET r == update_all_rnd_statuses_for_contract(contract_id)
    IN /\ rnds' = r.rnds
       /\ last' = [op |-> "update_all_rnd_statuses_for_contract",
                   outcome |-> r.outcome, pk |-> contract_id, found |-> "none"]
       /\ UNCHANGED <<types, contracts, specs, calls_running>>

SpecSave(inst, ids) ==
    LET r == TechnicalSpecification_save(inst)
    IN /\ DOMAIN r.specs \subseteq ids
       /\ specs' = r.specs
       /\ last' = Call("TechnicalSpecification.save", r.outcome, r.pk,
                       IF inst.pk \in DOMAIN specs THEN "stored" ELSE "new")
       /\ UNCHANGED <<types, contracts, rnds, calls_running>>

(***************************************************************************)
(* Calls in progress.  Two processes run TechnicalSpecification.save()     *)
(* against the same tables: each SQL statement is one step, the            *)
(* validation with the UPDATE that clean() issues, then the INSERT or      *)
(* UPDATE of Model.save().  No transaction or lock spans the two           *)
(* (settings.py: no ATOMIC_REQUESTS; save() opens no atomic block).        *)
(***************************************************************************)
Procs == {1, 2}

IdleTsCall ==
    [pc |-> "idle", pk |-> None,
     inst |-> [pk |-> None, rnd |-> None, contract_document |-> None,
               is_active |-> FALSE, version |-> <<>>]]

NoTsCalls == [p \in Procs |-> IdleTsCall]

\* full_clean(): clean_fields(), then clean() with its UPDATE of the other versions
TsFullClean(p, inst) ==
    LET fields_ok == TechnicalSpecification_clean_fields(inst)
        cleaned == TechnicalSpecification_clean(inst)
    IN /\ ts_calls[p].pc = "idle"
       /\ specs' = cleaned.specs
       /\ ts_calls' = [ts_calls EXCEPT ![p] =
              [pc |-> IF ~fields_ok \/ cleaned.error THEN "ValidationError" ELSE "cleaned",
               pk |-> None, inst |-> inst]]
       /\ UNCHANGED <<types, contracts, rnds, last, upload, status_calls>>

\* super().save(): the INSERT or UPDATE of the row
TsWrite(p, ids) ==
    LET inst == ts_calls[p].inst
        id == IF inst.pk = None THEN NextId(specs) ELSE inst.pk
    IN /\ ts_calls[p].pc = "cleaned"
       /\ id \in ids
       /\ specs' = WriteRow(specs, id, SpecRow(inst))
       /\ ts_calls' = [ts_calls EXCEPT ![p].pc = "saved", ![p].pk = id]
       /\ UNCHANGED <<types, contracts, rnds, last, upload, status_calls>>

(***************************************************************************)
(* A Contract.save() in progress and an RnD that another process has       *)
(* loaded, with its contract cached, and saves.  The steps of              *)
(* Contract.save() are full_clean() with the pre_save query, the UPDATE of *)
(* the contract, and for each of the two post_save cascades the query of   *)
(* the RnD rows and the bulk_update().                                     *)
(***************************************************************************)
IdleContractCall ==
    [pc |-> "idle", status_changed |-> FALSE, rnds_to_update |-> {},
     inst |-> [pk |-> None, type |-> 1, main_contract |-> None,
               status |-> "active", number |-> <<>>]]

IdleRnDCall ==
    [pc |-> "idle",
     inst |-> [pk |-> None, contract |-> None, status |-> "in_progress",
               last_contract_status |-> Null, uuid |-> <<>>,
               cached_contract |-> [type |-> 1, main_contract |-> None,
                                    status |-> "active"]]]

NoStatusCalls == [contract |-> IdleContractCall, rnd |-> IdleRnDCall]

\* the rows the cascade collects: for rnd in rnd_works: if rnd.status != new_status
rnds_to_update(inst, status_changed, rnd_table) ==
    IF is_main_contract(inst) /\ status_changed
    THEN {r \in DOMAIN rnd_table :
              /\ rnd_table[r].contract = inst.pk
              /\ rnd_table[r].status # status_mapping(inst.status)}
    ELSE {}

\* RnD.objects.bulk_update(rnds_to_update, ['status', 'last_contract_status', ...])
bulk_update(inst, to_update, rnd_table) ==
    [r \in DOMAIN rnd_table |->
        IF r \in to_update
        THEN [rnd_table[r] EXCEPT !.status = status_mapping(inst.status),
                                  !.last_contract_status = inst.status]
        ELSE rnd_table[r]]

\* full_clean() and the pre_save handler of a stored contract
ContractPreSave(inst) ==
    LET cleaned == Contract_clean(inst)
    IN /\ status_calls.contract.pc = "idle"
       /\ inst.pk \in DOMAIN contracts
       /\ status_calls' = [status_calls EXCEPT !.contract =
              IF cleaned.error
              THEN [IdleContractCall EXCEPT !.pc = "ValidationError", !.inst = inst]
              ELSE [pc |-> "pre_saved",
                    status_changed |-> track_contract_status_change(cleaned.instance),
                    rnds_to_update |-> {},
                    inst |-> cleaned.instance]]
       /\ UNCHANGED <<types, contracts, rnds, specs, last, upload, ts_calls>>

\* the UPDATE of the contract row
ContractWrite ==
    LET call == status_calls.contract
    IN /\ call.pc = "pre_saved"
       /\ contracts' = WriteRow(contracts, call.inst.pk,
                                ContractRow(call.inst, call.inst.pk))
       /\ status_calls' = [status_calls EXCEPT !.contract.pc = "written"]
       /\ UNCHANGED <<types, rnds, specs, last, upload, ts_calls>>

\* a post_save cascade evaluates RnD.objects.filter(contract=instance)
CascadeRead ==
    LET call == status_calls.contract
    IN /\ call.pc \in {"written", "models_updated"}
       /\ status_calls' = [status_calls EXCEPT
              !.contract.pc = IF call.pc = "written" THEN "models_read"
                              ELSE "signals_read",
              !.contract.rnds_to_update =
                  rnds_to_update(call.inst, call.status_changed, rnds)]
       /\ UNCHANGED <<types, contracts, rnds, specs, last, upload, ts_calls>>

\* the cascade writes the rows it collected; after the second cascade
\* ensure_main_contract_integrity runs and Contract.save() returns
CascadeBulkUpdate ==
    LET call == status_calls.contract
    IN /\ call.pc \in {"models_read", "signals_read"}
       /\ rnds' = bulk_update(call.inst, call.rnds_to_update, rnds)
       /\ contracts' = IF call.pc = "signals_read"
                       THEN ensure_main_contract_integrity(call.inst, contracts)
                       ELSE contracts
       /\ status_calls' = [status_calls EXCEPT
              !.contract.pc = IF call.pc = "models_read" THEN "models_updated"
                              ELSE "saved",
              !.contract.rnds_to_update = {}]
       /\ UNCHANGED <<types, specs, last, upload, ts_calls>>

\* RnD.objects.get(pk=r) and the first access to .contract, before the contract row
\* is written
RnDLoad(r) ==
    /\ status_calls.rnd.pc = "idle"
    /\ status_calls.contract.pc \in {"idle", "pre_saved"}
    /\ r \in DOMAIN rnds
    /\ status_calls' = [status_calls EXCEPT !.rnd =
           [pc |-> "loaded",
            inst |-> [pk |-> r, contract |-> rnds[r].contract,
                      status |-> rnds[r].status,
                      last_contract_status |-> rnds[r].last_contract_status,
                      uuid |-> <<"7">>,
                      cached_contract |-> contracts[rnds[r].contract]]]]
    /\ UNCHANGED <<types, contracts, rnds, specs, last, upload, ts_calls>>

\* RnD.save() of the loaded instance: validation works on the instance and its
\* cached contract, then the UPDATE writes every column
RnDSaveLoaded ==
    LET r == RnD_save(status_calls.rnd.inst)
    IN /\ status_calls.rnd.pc = "loaded"
       /\ rnds' = r.rnds
       /\ status_calls' = [status_calls EXCEPT !.rnd.pc = r.outcome]
       /\ UNCHANGED <<types, contracts, specs, last, upload, ts_calls>>

\* the upload path built last
NoUpload ==
    [called |-> FALSE,
     self |-> [pk |-> None, rnd |-> None, version |-> <<>>, is_active |-> FALSE],
     now |-> [year |-> 0, month |-> 0, day |-> 0, hour |-> 0],
     filename |-> <<>>, path |-> <<>>]

GetUploadPath(self, now, filename) ==
    /\ upload' = [called |-> TRUE, self |-> self, now |-> now, filename |-> filename,
                  path |-> get_upload_path(self, now, filename)]
    /\ UNCHANGED <<types, contracts, rnds, specs, last, ts_calls, status_calls>>

(***************************************************************************)
(* Specifications.                                                         *)
(***************************************************************************)
EmptyTable == [k \in {} |-> None]

Init ==
    /\ types = ContractTypeRows
    /\ contracts = EmptyTable
    /\ rnds = EmptyTable
    /\ specs = EmptyTable
    /\ last = NoCall
    /\ upload = NoUpload
    /\ ts_calls = NoTsCalls
    /\ status_calls = NoStatusCalls

\* Spec: two contracts (main contracts or a supplementary agreement), saved with
\* two of the statuses, and the RnD works linked to them
LinkContractIds == {1, 2}

LinkTypeIds == {1, 2}

LinkContractStatuses == {"active", "suspended"}

LinkRnDStatuses == {"in_progress", "suspended"}

Next ==
    \/ \E inst \in ContractInstances(LinkContractIds, LinkTypeIds, LinkContractStatuses) :
           ContractSave(inst, LinkContractIds)
    \/ \E inst \in RnDInstances(RnDIds, LinkRnDStatuses) : RnDSave(inst, RnDIds)
    \/ \E contract_id \in LinkContractIds : UpdateAllRnDStatuses(contract_id)

Spec == Init /\ [][Next]_vars

\* SpecCascade: one main contract saved with every status, and its RnD works
CascadeContractIds == {1}

CascadeTypeIds == {1}

NextCascade ==
    \/ \E inst \in ContractInstances(CascadeContractIds, CascadeTypeIds,
                                     CONTRACT_STATUS_CHOICES) :
           ContractSave(inst, CascadeContractIds)
    \/ \E inst \in RnDInstances(RnDIds, STATUS_CHOICES) : RnDSave(inst, RnDIds)
    \/ \E contract_id \in CascadeContractIds : UpdateAllRnDStatuses(contract_id)

SpecCascade == Init /\ [][NextCascade]_vars

\* SpecContract: Contract.save() and the admin's save_model() over every type
NextContract ==
    \/ \E inst \in ContractInstances(ContractIds, DOMAIN types, LinkContractStatuses) :
           ContractSave(inst, ContractIds)
    \/ \E inst \in ContractInstances(ContractIds, DOMAIN types, LinkContractStatuses) :
           AdminSaveModel(inst, ContractIds)

SpecContract == Init /\ [][NextContract]_vars

\* SpecSpecs: TechnicalSpecification.save() over two main contracts, a supplementary
\* agreement to the first and an RnD on each main contract: the tables after three
\* Contract.save() and two RnD.save() calls
InitSpecs ==
    /\ types = ContractTypeRows
    /\ contracts =
          (1 :> [type |-> 1, main_contract |-> 1, status |-> "active"]) @@
          (2 :> [type |-> 2, main_contract |-> 1, status |-> "active"]) @@
          (3 :> [type |-> 1, main_contract |-> 3, status |-> "active"])
    /\ rnds =
          (1 :> [contract |-> 1, status |-> "in_progress",
                 last_contract_status |-> "active"]) @@
          (2 :> [contract |-> 3, status |-> "in_progress",
                 last_contract_status |-> "active"])
    /\ specs = EmptyTable
    /\ last = NoCall
    /\ upload = NoUpload
    /\ ts_calls = NoTsCalls
    /\ status_calls = NoStatusCalls

NextSpecs == \E inst \in SpecInstances(SpecIds) : SpecSave(inst, SpecIds)

SpecSpecs == InitSpecs /\ [][NextSpecs]_vars

\* SpecUpload: get_upload_path() of specifications of three stored RnD works; the
\* rows carry the uuid column, a slug unique to each row
UploadUuids == <<(<<"a">>), (<<"a", "-", "1">>), (<<"_", "b">>)>>

UploadFilenames == {<<"f">>, <<"t", "z", ".", "p", "d", "f">>}

UploadClock == [year : {2025, 2026}, month : {1, 12}, day : {1, 31}, hour : {0, 23}]

UploadInstances ==
    [pk : {None, 1}, rnd : DOMAIN rnds, version : {GoodVersion}, is_active : BOOLEAN]

InitUpload ==
    /\ types = ContractTypeRows
    /\ contracts = (1 :> [type |-> 1, main_contract |-> 1, status |-> "active"])
    /\ rnds = [r \in DOMAIN UploadUuids |->
                  [contract |-> 1, status |-> "in_progress",
                   last_contract_status |-> "active", uuid |-> UploadUuids[r]]]
    /\ specs = EmptyTable
    /\ last = NoCall
    /\ upload = NoUpload
    /\ ts_calls = NoTsCalls
    /\ status_calls = NoStatusCalls

NextUpload ==
    \E self \in UploadInstances, now \in UploadClock, filename \in UploadFilenames :
        GetUploadPath(self, now, filename)

SpecUpload == InitUpload /\ [][NextUpload]_vars

\* SpecConcurrentSpecs: two processes, each running one TechnicalSpecification.save()
NextConcurrentSpecs ==
    \/ \E p \in Procs, inst \in SpecInstances(SpecIds) : TsFullClean(p, inst)
    \/ \E p \in Procs : TsWrite(p, SpecIds)

SpecConcurrentSpecs == InitSpecs /\ [][NextConcurrentSpecs]_vars

\* SpecConcurrentStatus: one Contract.save() of the stored main contract and one
\* RnD.save() of an RnD loaded before the contract row is written
InitConcurrentStatus ==
    /\ types = ContractTypeRows
    /\ \E status \in CONTRACT_STATUS_CHOICES :
           /\ contracts = (1 :> [type |-> 1, main_contract |-> 1, status |-> status])
           /\ rnds = [r \in RnDIds |->
                         [contract |-> 1, status |-> status_mapping(status),
                          last_contract_status |-> status]]
    /\ specs = EmptyTable
    /\ last = NoCall
    /\ upload = NoUpload
    /\ ts_calls = NoTsCalls
    /\ status_calls = NoStatusCalls

NextConcurrentStatus ==
    \/ \E inst \in ContractInstances(CascadeContractIds, CascadeTypeIds,
                                     CONTRACT_STATUS_CHOICES) : ContractPreSave(inst)
    \/ ContractWrite
    \/ CascadeRead
    \/ CascadeBulkUpdate
    \/ \E r \in RnDIds : RnDLoad(r)
    \/ RnDSaveLoaded

SpecConcurrentStatus == InitConcurrentStatus /\ [][NextConcurrentStatus]_vars

(***************************************************************************)
(* The claims.                                                             *)
(***************************************************************************)

\* the mapping the claims state: contract status -> RnD status
MappedStatus ==
    [active |-> "in_progress", suspended |-> "suspended",
     completed |-> "completed", terminated |-> "contract_terminated"]

LinkedRnDs(contract_id) == {r \in DOMAIN rnds : rnds[r].contract = contract_id}

\* C1: when Contract.save() of an already-stored contract of a non-supplementary
\* type with a status other than the stored one has completed, handlers included,
\* every RnD linked to the contract has the mapped value of the new status.
C1_CascadeOnStatusChange ==
    (/\ last.op = "Contract.save"
     /\ last.outcome = "saved"
     /\ last.found = "changed"
     /\ ~types[contracts[last.pk].type].is_supplementary)
    => \A r \in LinkedRnDs(last.pk) :
           rnds[r].status = MappedStatus[contracts[last.pk].status]

\* C1 witness: a status change of a stored main contract was saved and an RnD linked
\* to it carries the terminated contract's status.
C1_Witness ==
    /\ last.op = "Contract.save"
    /\ last.outcome = "saved"
    /\ last.found = "changed"
    /\ ~types[contracts[last.pk].type].is_supplementary
    /\ contracts[last.pk].status = "terminated"
    /\ \E r \in LinkedRnDs(last.pk) :
           /\ rnds[r].status = "contract_terminated"
           /\ rnds[r].last_contract_status = "terminated"

\* C2: in every state reached by completed Contract.save() and RnD.save() calls,
\* each stored RnD's status is the mapped value of its contract's stored status.
C2_StatusAlwaysSynchronized ==
    \A r \in DOMAIN rnds :
        rnds[r].status = MappedStatus[contracts[rnds[r].contract].status]

ActiveSpecs(rnd_id) ==
    {k \in DOMAIN specs : specs[k].rnd = rnd_id /\ specs[k].is_active}

\* C3: after any sequence of TechnicalSpecification.save() calls, creating or
\* updating, succeeding or failing, each RnD has at most one active specification.
C3_AtMostOneActiveSpec ==
    \A rnd_id \in DOMAIN rnds : Cardinality(ActiveSpecs(rnd_id)) <= 1

\* C3 witness: a save has failed and an RnD holds two versions, one of them active.
C3_Witness ==
    /\ last.op = "TechnicalSpecification.save"
    /\ last.outcome = "ValidationError"
    /\ \E j, k \in DOMAIN specs :
           /\ j # k
           /\ specs[j].rnd = specs[k].rnd
           /\ specs[j].is_active
           /\ ~specs[k].is_active

\* C4: a successful TechnicalSpecification.save() of a specification with
\* is_active = True stores it as active and leaves every other specification of its
\* RnD inactive.
C4_ActiveSaveDeactivatesOthers ==
    \A inst \in SpecInstances(SpecIds) :
        LET r == TechnicalSpecification_save(inst)
        IN (inst.is_active /\ r.outcome = "saved") =>
               /\ r.specs[r.pk].is_active
               /\ r.specs[r.pk].rnd = inst.rnd
               /\ \A k \in DOMAIN r.specs :
                      (k # r.pk /\ r.specs[k].rnd = inst.rnd) => ~r.specs[k].is_active

\* C4 witness: the version saved last is active and a prior version of the same RnD
\* is stored inactive.
C4_Witness ==
    /\ last.op = "TechnicalSpecification.save"
    /\ last.outcome = "saved"
    /\ specs[last.pk].is_active
    /\ \E k \in DOMAIN specs :
           /\ k # last.pk
           /\ specs[k].rnd = specs[last.pk].rnd
           /\ ~specs[k].is_active

AllContractInstances ==
    ContractInstances(ContractIds, DOMAIN types, CONTRACT_STATUS_CHOICES)

\* the main contract of a supplementary agreement is compatible: set, not itself
\* supplementary, of the agreement type's parent type
CompatibleMain(inst) ==
    /\ inst.main_contract # None
    /\ ~types[contracts[inst.main_contract].type].is_supplementary
    /\ contracts[inst.main_contract].type = types[inst.type].parent_type

\* C5: Contract.save() of a contract of a supplementary type succeeds only if its
\* main contract is compatible; in every other case it raises a ValidationError
\* and writes nothing to the contract table.
C5_SupplementaryNeedsCompatibleMain ==
    \A inst \in AllContractInstances :
        types[inst.type].is_supplementary =>
            LET r == Contract_save(inst)
            IN /\ r.outcome = "saved" => CompatibleMain(inst)
               /\ ~CompatibleMain(inst) =>
                      r.outcome = "ValidationError" /\ r.contracts = contracts

\* C5 witness: a supplementary agreement was saved and refers to a stored main
\* contract of its parent type.
C5_Witness ==
    /\ last.op = "Contract.save"
    /\ last.outcome = "saved"
    /\ types[contracts[last.pk].type].is_supplementary
    /\ contracts[last.pk].main_contract # last.pk
    /\ contracts[contracts[last.pk].main_contract].type =
           types[contracts[last.pk].type].parent_type

\* C6: in every state reached after a completed Contract.save(), through the model or
\* through the admin, every stored contract of a non-supplementary type has
\* main_contract referring to itself.
C6_MainContractRefersToItself ==
    \A c \in DOMAIN contracts :
        ~types[contracts[c].type].is_supplementary => contracts[c].main_contract = c

\* C6 witness: the admin has saved a change of a stored main contract.
C6_Witness ==
    /\ last.op = "ContractAdmin.save_model"
    /\ last.outcome = "saved"
    /\ ~types[contracts[last.pk].type].is_supplementary
    /\ contracts[last.pk].main_contract = last.pk

\* C7: no stored RnD has a contract of a supplementary type, and RnD.save() with
\* such a contract raises a ValidationError without storing the RnD.
C7_RnDOnlyOnMainContract ==
    /\ \A r \in DOMAIN rnds :
           ~types[contracts[rnds[r].contract].type].is_supplementary
    /\ \A inst \in RnDInstances(RnDIds, STATUS_CHOICES) :
           types[contracts[inst.contract].type].is_supplementary =>
               LET r == RnD_save(inst)
               IN r.outcome = "ValidationError" /\ r.rnds = rnds

\* the document belongs to the main contract of the RnD
SameMainContract(inst) ==
    IF types[contracts[inst.contract_document].type].is_supplementary
    THEN contracts[inst.contract_document].main_contract = rnds[inst.rnd].contract
    ELSE inst.contract_document = rnds[inst.rnd].contract

\* C8: TechnicalSpecification.save() succeeds only if its contract_document belongs
\* to the main contract of its RnD; otherwise a ValidationError is raised and the
\* specification is not stored.
C8_DocumentOfTheSameMainContract ==
    \A inst \in SpecInstances(SpecIds) :
        LET r == TechnicalSpecification_save(inst)
        IN /\ r.outcome = "saved" => SameMainContract(inst)
           /\ ~SameMainContract(inst) =>
                  r.outcome = "ValidationError" /\ r.specs = specs

\* C8 witness: a specification approved by a supplementary agreement to the RnD's
\* contract was saved.
C8_Witness ==
    /\ last.op = "TechnicalSpecification.save"
    /\ last.outcome = "saved"
    /\ types[contracts[specs[last.pk].contract_document].type].is_supplementary
    /\ contracts[specs[last.pk].contract_document].main_contract =
           rnds[specs[last.pk].rnd].contract

\* C9: Contract.save() changes an RnD row only if the saved contract is of a
\* non-supplementary type, was already stored, has a new status other than the
\* stored one, and the RnD is linked to it; it adds and removes no RnD row.
C9_CascadeOnlyOnStatusChange ==
    [][last'.op = "Contract.save" =>
          /\ DOMAIN rnds' = DOMAIN rnds
          /\ \A r \in DOMAIN rnds :
                 rnds'[r] # rnds[r] =>
                     /\ last'.outcome = "saved"
                     /\ last'.pk \in DOMAIN contracts
                     /\ contracts'[last'.pk].status # contracts[last'.pk].status
                     /\ ~types[contracts'[last'.pk].type].is_supplementary
                     /\ rnds[r].contract = last'.pk]_vars

\* C9 witness: a status change of a supplementary agreement was saved while an RnD
\* of its main contract is stored with a status the cascade would replace.
C9_Witness ==
    /\ last.op = "Contract.save"
    /\ last.outcome = "saved"
    /\ last.found = "changed"
    /\ types[contracts[last.pk].type].is_supplementary
    /\ \E r \in DOMAIN rnds :
           /\ rnds[r].contract = contracts[last.pk].main_contract
           /\ rnds[r].status # MappedStatus[contracts[last.pk].status]

\* C10: update_all_rnd_statuses_for_contract(contract_id) with the id of a stored
\* main contract returns the number of the RnDs linked to it, and every one of them
\* has the mapped status and the contract's status as last_contract_status.
C10_ForcedSynchronisation ==
    (/\ last.op = "update_all_rnd_statuses_for_contract"
     /\ last.pk \in DOMAIN contracts
     /\ ~types[contracts[last.pk].type].is_supplementary)
    => /\ last.outcome = "returned"
       /\ update_all_rnd_statuses_for_contract(last.pk).count =
              Cardinality(LinkedRnDs(last.pk))
       /\ \A r \in LinkedRnDs(last.pk) :
              /\ rnds[r].status = MappedStatus[contracts[last.pk].status]
              /\ rnds[r].last_contract_status = contracts[last.pk].status

\* C11: update_all_rnd_statuses_for_contract(contract_id) with an id that matches no
\* stored main contract (no contract, or a supplementary agreement) returns 0,
\* raises no exception and changes no RnD.
C11_NoMainContractReturnsZero ==
    [][(/\ last'.op = "update_all_rnd_statuses_for_contract"
        /\ \/ last'.pk \notin DOMAIN contracts
           \/ types[contracts[last'.pk].type].is_supplementary)
       => /\ last'.outcome = "returned"
          /\ update_all_rnd_statuses_for_contract(last'.pk).count = 0
          /\ rnds' = rnds]_vars

\* C12: RnD.save() of an RnD that is not yet stored and is linked to a main contract
\* stores it with the mapped value of the contract's status, whatever status the
\* caller supplied, and with the contract's status as last_contract_status.
C12_NewRnDTakesContractStatus ==
    \A inst \in RnDInstances(RnDIds, STATUS_CHOICES) :
        (/\ inst.pk \notin DOMAIN rnds
         /\ ~types[contracts[inst.contract].type].is_supplementary)
        => LET r == RnD_save(inst)
           IN r.outcome = "saved" =>
                  /\ r.rnds[r.pk].status = MappedStatus[contracts[inst.contract].status]
                  /\ r.rnds[r.pk].last_contract_status = contracts[inst.contract].status

\* the date as the claims write it, YYYY_MM_DD
FormattedDate(now) ==
    <<Digits[(now.year \div 1000) + 1], Digits[((now.year \div 100) % 10) + 1],
      Digits[((now.year \div 10) % 10) + 1], Digits[(now.year % 10) + 1], "_",
      Digits[(now.month \div 10) + 1], Digits[(now.month % 10) + 1], "_",
      Digits[(now.day \div 10) + 1], Digits[(now.day % 10) + 1]>>

RECURSIVE JoinSegments(_)
JoinSegments(segments) ==
    IF Len(segments) = 1 THEN Head(segments)
    ELSE Head(segments) \o <<"/">> \o JoinSegments(Tail(segments))

\* u / technical_specifications / ts / u_ts_d / filename
UploadPathSegments(u, now, filename) ==
    <<u, technical_specifications, <<"t", "s">>,
      u \o <<"_", "t", "s", "_">> \o FormattedDate(now), filename>>

\* C13: for a specification with an RnD, get_upload_path(filename) is the path of
\* the segments u / technical_specifications / ts / u_ts_d / filename, u the uuid of
\* the RnD and d the current date as YYYY_MM_DD; two calls with the same u, d and
\* filename give the same path, whatever else differs between them.
C13_UploadPathDeterministic ==
    /\ [](upload.called =>
             upload.path = JoinSegments(UploadPathSegments(
                               rnds[upload.self.rnd].uuid, upload.now, upload.filename)))
    /\ [][(/\ upload.called
           /\ upload'.called
           /\ rnds'[upload'.self.rnd].uuid = rnds[upload.self.rnd].uuid
           /\ upload'.now.year = upload.now.year
           /\ upload'.now.month = upload.now.month
           /\ upload'.now.day = upload.now.day
           /\ upload'.filename = upload.filename)
          => upload'.path = upload.path]_vars

\* C13 witness: the path built for tz.pdf of the RnD a-1 on 1 January 2026 is
\* a-1/technical_specifications/ts/a-1_ts_2026_01_01/tz.pdf
C13_Witness ==
    /\ upload.called
    /\ upload.self.pk # None
    /\ rnds[upload.self.rnd].uuid = <<"a", "-", "1">>
    /\ upload.now = [year |-> 2026, month |-> 1, day |-> 1, hour |-> 23]
    /\ upload.filename = <<"t", "z", ".", "p", "d", "f">>
    /\ upload.path =
        <<"a", "-", "1", "/", "t", "e", "c", "h", "n", "i", "c", "a", "l",
          "_", "s", "p", "e", "c", "i", "f", "i", "c", "a", "t", "i", "o",
          "n", "s", "/", "t", "s", "/", "a", "-", "1", "_", "t", "s", "_",
          "2", "0", "2", "6", "_", "0", "1", "_", "0", "1", "/", "t", "z",
          ".", "p", "d", "f">>

\* C14: Contract.save() of a contract of a non-supplementary type whose
\* main_contract is set to a different contract raises a ValidationError and leaves
\* the stored contracts, and the RnD rows, unchanged.
C14_MainContractCannotReferToAnother ==
    \A inst \in AllContractInstances :
        (/\ ~types[inst.type].is_supplementary
         /\ inst.main_contract # None
         /\ inst.main_contract # inst.pk)
        => LET r == Contract_save(inst)
           IN /\ r.outcome = "ValidationError"
              /\ r.contracts = contracts
              /\ r.rnds = rnds

\* C14 witness: a Contract.save() has just been refused while two main contracts are
\* stored, and saving the first with main_contract set to the second is refused.
C14_Witness ==
    /\ last.op = "Contract.save"
    /\ last.outcome = "ValidationError"
    /\ \E inst \in AllContractInstances :
           /\ inst.pk \in DOMAIN contracts
           /\ ~types[inst.type].is_supplementary
           /\ ~types[contracts[inst.pk].type].is_supplementary
           /\ inst.main_contract \in DOMAIN contracts \ {inst.pk}
           /\ ~types[contracts[inst.main_contract].type].is_supplementary
           /\ Contract_save(inst).outcome = "ValidationError"

C16_LastContractStatusTracksContract ==
    \A r \in DOMAIN rnds :
        rnds[r].last_contract_status = contracts[rnds[r].contract].status

\* C17: TechnicalSpecification.save() never changes is_active of a specification
\* that belongs to another RnD than the saved one, and a save with is_active = False
\* changes no specification other than the saved one.
C17_OtherRnDsUntouched ==
    \A inst \in SpecInstances(SpecIds) :
        LET r == TechnicalSpecification_save(inst)
        IN \A k \in DOMAIN specs :
               k # inst.pk =>
                   /\ k \in DOMAIN r.specs
                   /\ specs[k].rnd # inst.rnd =>
                          r.specs[k].is_active = specs[k].is_active
                   /\ ~inst.is_active => r.specs[k] = specs[k]

\* C17 witness: an active specification was saved while an active specification of
\* another RnD is stored, and that one is still active.
C17_Witness ==
    /\ last.op = "TechnicalSpecification.save"
    /\ last.outcome = "saved"
    /\ specs[last.pk].is_active
    /\ \E k \in DOMAIN specs :
           /\ k # last.pk
           /\ specs[k].rnd # specs[last.pk].rnd
           /\ specs[k].is_active

\* C18: if TechnicalSpecification.save() raises a ValidationError, the is_active
\* value of every stored specification is the same as before the call.
C18_FailedSaveChangesNothing ==
    [][(/\ last'.op = "TechnicalSpecification.save"
        /\ last'.outcome = "ValidationError")
       => /\ DOMAIN specs' = DOMAIN specs
          /\ \A k \in DOMAIN specs : specs'[k].is_active = specs[k].is_active]_vars

\* C19: if two TechnicalSpecification.save() calls for two different specifications
\* of the same RnD, both with is_active = True, are interleaved in any order of their
\* statements, then after both have completed the RnD has at most one active
\* specification.
C19_ConcurrentSavesKeepOneActive ==
    (/\ \A p \in Procs : ts_calls[p].pc = "saved"
     /\ ts_calls[1].pk # ts_calls[2].pk
     /\ ts_calls[1].inst.rnd = ts_calls[2].inst.rnd
     /\ ts_calls[1].inst.is_active
     /\ ts_calls[2].inst.is_active)
    => Cardinality(ActiveSpecs(ts_calls[1].inst.rnd)) <= 1

\* C20: if a Contract.save() that changes the status of a main contract runs
\* concurrently with an RnD.save() of an RnD linked to it, the RnD and its cached
\* contract loaded before the contract change, then after both calls have completed
\* the stored RnD's status is the mapped value of the contract's stored status.
C20_ConcurrentSavesKeepStatusMapped ==
    (/\ status_calls.contract.pc = "saved"
     /\ status_calls.contract.status_changed
     /\ ~types[status_calls.contract.inst.type].is_supplementary
     /\ status_calls.rnd.pc = "saved"
     /\ status_calls.rnd.inst.contract = status_calls.contract.inst.pk)
    => rnds[status_calls.rnd.inst.pk].status =
           MappedStatus[contracts[status_calls.contract.inst.pk].status]

\* C21: the cascade is registered twice for Contract post_save, in models.py and in
\* signals.py; for every contract save the RnD rows after both handlers have run are
\* the rows after the first handler alone: the second run changes no RnD.
C21_CascadeIdempotent ==
    \A inst \in AllContractInstances :
        LET cleaned == Contract_clean(inst)
            whole == Contract_save(inst)
        IN whole.outcome = "saved" =>
               LET saved == [cleaned.instance EXCEPT !.pk = whole.pk]
                   status_changed == track_contract_status_change(cleaned.instance)
                   first == update_rnd_status_on_contract_status_change(
                                saved, status_changed, rnds)
                   second == signals_update_rnd_status_on_contract_status_change(
                                 saved, status_changed, first)
               IN /\ second = first
                  /\ whole.rnds = first

\* C21 witness: the status of a stored main contract was changed to completed and
\* the cascade has rewritten an RnD linked to it.
C21_Witness ==
    /\ last.op = "Contract.save"
    /\ last.outcome = "saved"
    /\ last.found = "changed"
    /\ ~types[contracts[last.pk].type].is_supplementary
    /\ contracts[last.pk].status = "completed"
    /\ \E r \in LinkedRnDs(last.pk) :
           /\ rnds[r].status = "completed"
           /\ rnds[r].last_contract_status = "completed"

\* C22: in every state reached by Contract.save() calls, saves that change the type
\* of a stored contract included, every stored contract of a supplementary type has
\* a main_contract that is a different contract, of a type that is not supplementary
\* and is the parent_type of the agreement's type.
C22_SupplementaryHasCompatibleMain ==
    \A c \in DOMAIN contracts :
        types[contracts[c].type].is_supplementary =>
            /\ contracts[c].main_contract \in DOMAIN contracts
            /\ contracts[c].main_contract # c
            /\ ~types[contracts[contracts[c].main_contract].type].is_supplementary
            /\ contracts[contracts[c].main_contract].type =
                   types[contracts[c].type].parent_type

====
